---- MODULE Spec2Model ----
(***************************************************************************)
(* BasicController (generic CRUD controller over mongoose documents) and   *)
(* its two query helpers, normalizeQuery and prepareFilter.                *)
(*                                                                         *)
(* JavaScript objects are functions from key strings to values; a key that *)
(* is absent reads as Undefined.  A promise that is pending is a value of  *)
(* "pending" in the state, and each of its two settlements is an action.   *)
(***************************************************************************)
EXTENDS Integers, Sequences, FiniteSets, TLC

VARIABLES
  options,    \* this.options, fixed by the constructor
  db,         \* the collection behind this.model: stored id -> document
  pc,         \* where the request in flight stands
  req,        \* the request object (id, body, query, user, attached document)
  res,        \* the responses sent to the response sink, in order
  nextCalls,  \* the calls of the router's next, in order ("" is next())
  calls,      \* the storage calls issued for this request, in order
  rejected,   \* <<>> or <<message>>: the handler's promise rejected
  item,       \* the document handed to the save/delete dispatcher
  lookup,     \* get: the findById promise
  saving,     \* the dispatcher: the awaited save or delete
  findSt,     \* list: the find promise
  countSt,    \* list: the countDocuments promise
  nreq,       \* requests served so far
  arg,        \* helper specifications: the arguments of the call
  ret         \* helper specifications: <<>> or <<result>>

vars == <<options, db, pc, req, res, nextCalls, calls, rejected, item,
          lookup, saving, findSt, countSt, nreq, arg, ret>>

(***************************************************************************)
(* Bounds                                                                  *)
(***************************************************************************)
MaxRequests == 2     \* requests one behaviour serves
MaxFieldNames == 2   \* length of options.fieldNames
MaxFilterNames == 2  \* length of the eligible-field list given to prepareFilter
MaxGroup == 2        \* length of a $or / $and group given to normalizeQuery

(***************************************************************************)
(* JavaScript values: [type, val], val the value's text                    *)
(***************************************************************************)
Undefined == [type |-> "undefined", val |-> ""]
Str(s) == [type |-> "string", val |-> s]
EmptyObject == [k \in {} |-> Undefined]

\* obj[key], which is undefined when obj has no such key
Get(obj, key) == IF key \in DOMAIN obj THEN obj[key] ELSE Undefined

\* obj with obj[key] = value
Put(obj, key, value) ==
  [k \in DOMAIN obj \cup {key} |-> IF k = key THEN value ELSE obj[k]]

\* obj without the keys in gone
Omit(obj, gone) == [k \in DOMAIN obj \ gone |-> obj[k]]

\* the objects with keys among K and values in V
Objects(K, V) == UNION {[S -> V] : S \in SUBSET K}

\* all sequences over S of length at most n
SeqsUpTo(S, n) == UNION {[1..m -> S] : m \in 0..n}

\* the sequences of SeqsUpTo(S, n) that name no element twice
DistinctSeqsUpTo(S, n) ==
  {s \in SeqsUpTo(S, n) : \A i, j \in 1..Len(s) : i # j => s[i] # s[j]}

(***************************************************************************)
(* mongoose.Types.ObjectId                                                 *)
(***************************************************************************)
HexDigits == {"0", "1", "2", "3", "4", "5", "6", "7", "8", "9",
              "a", "b", "c", "d", "e", "f", "A", "B", "C", "D", "E", "F"}

IsHex(s) == \A i \in 1..Len(s) : SubSeq(s, i, i) \in HexDigits

IsValidMutant(v) == TRUE
\* mongoose.Types.ObjectId.isValid(v): a number, an ObjectId, a string of
\* 12 characters or a string of 24 hex digits
IsValid(v) ==
  \/ v.type \in {"number", "ObjectId"}
  \/ v.type = "string" /\ (Len(v.val) = 12 \/ (Len(v.val) = 24 /\ IsHex(v.val)))

\* mongoose.Types.ObjectId(v): the native id, which is not the string
ObjectId(v) == [type |-> "ObjectId", val |-> v.val]

(***************************************************************************)
(* normalizeQuery                                                          *)
(***************************************************************************)
GroupKeys == <<"$or", "$and">>

KeepGroupMutant(query, key) == key \in DOMAIN query
\* query[key] && query[key].length
KeepGroup(query, key) == key \in DOMAIN query /\ Len(query[key]) # 0

RECURSIVE normalizeLoop(_, _, _)
\* the forEach over Object.keys({ $or, $and }), from the i-th key on
normalizeLoop(query, rest, i) ==
  IF i > Len(GroupKeys) THEN rest
  ELSE normalizeLoop(query,
                     IF KeepGroup(query, GroupKeys[i])
                       THEN Put(rest, GroupKeys[i], query[GroupKeys[i]])
                       ELSE rest,
                     i + 1)

normalizeQuery(query) ==
  normalizeLoop(query, Omit(query, {"$or", "$and"}), 1)

(***************************************************************************)
(* prepareFilter                                                           *)
(***************************************************************************)
FilterValueMutant(raw) == raw
\* the value of the condition pushed for the raw value query[name]
FilterValue(raw) == IF IsValid(raw) THEN ObjectId(raw) ELSE raw

\* { [name]: value }
Condition(name, value) == [field |-> name, value |-> value]

RECURSIVE prepareLoop(_, _, _, _)
\* the forEach over filterNames, from the i-th name on
prepareLoop(query, filterNames, andFilter, i) ==
  IF i > Len(filterNames) THEN andFilter
  ELSE prepareLoop(query, filterNames,
                   IF Get(query, filterNames[i]) # Undefined
                     THEN Append(andFilter,
                                 Condition(filterNames[i],
                                           FilterValue(query[filterNames[i]])))
                     ELSE andFilter,
                   i + 1)

prepareFilter(query, filterNames) == prepareLoop(query, filterNames, <<>>, 1)

(***************************************************************************)
(* Requests, responses and the collection                                  *)
(***************************************************************************)
Fields == {"title", "user", "secret"}
BodyValues == {Str("X")}
Bodies == Objects(Fields, BodyValues)
Users == {[type |-> "object", val |-> "alice"]}
StorageErrors == {"boom"}

StoredId == "5f1d7f3e9d3e2a0017a1b2c3"
RouteIds == {StoredId, "5f1d7f3e9d3e2a0017a1b2c4", "not-an-id"}

StoredDocument ==
  [title |-> Str("old"), secret |-> Str("s"),
   user |-> [type |-> "object", val |-> "bob"]]

\* the _id mongoose gives the n-th document it constructs
NewId(n) == "00000000000000000000000" \o ToString(n)

NoRequest ==
  [op |-> "none", id |-> "", body |-> EmptyObject, query |-> EmptyObject,
   user |-> Undefined, attached |-> <<>>]

DefaultOptions ==
  [fieldNames |-> <<>>, populateFields |-> <<>>,
   fieldNamesSearch |-> <<>>, fieldNamesSearchFilter |-> <<>>]

\* res.json(payload)
Json(payload) == [status |-> 200, message |-> "", payload |-> payload]

\* res.status(code).send({ message })
Send(code, message) == [status |-> code, message |-> message, payload |-> <<>>]

\* a call of the router's next: err is "" for next(); attached is what the
\* request context held when the call was made
NextCall(err, request) == [err |-> err, attached |-> request.attached]

\* a promise: st is "none", "pending", "resolved" or "rejected"
NoPromise == [st |-> "none", value |-> <<>>, err |-> ""]
Pending == [st |-> "pending", value |-> <<>>, err |-> ""]
Resolved(value) == [st |-> "resolved", value |-> <<value>>, err |-> ""]
Rejected(err) == [st |-> "rejected", value |-> <<>>, err |-> err]

AtRest ==
  /\ pc = "idle"
  /\ req = NoRequest
  /\ res = <<>>
  /\ nextCalls = <<>>
  /\ calls = <<>>
  /\ rejected = <<>>
  /\ item = <<>>
  /\ lookup = NoPromise
  /\ saving = NoPromise
  /\ findSt = NoPromise
  /\ countSt = NoPromise
  /\ nreq = 0

controllerVars == <<options, db, pc, req, res, nextCalls, calls, rejected,
                    item, lookup, saving, findSt, countSt, nreq>>

\* a handler is entered with a request and a response of its own
Enter ==
  /\ pc \in {"idle", "done"}
  /\ nreq < MaxRequests
  /\ nreq' = nreq + 1

(***************************************************************************)
(* get: the by-id resolution gate                                          *)
(***************************************************************************)
RECURSIVE Join(_)
\* names.join(' ')
Join(names) ==
  IF Len(names) = 0 THEN ""
  ELSE IF Len(names) = 1 THEN names[1]
  ELSE names[1] \o " " \o Join(Tail(names))

\* .populate('user', 'displayName'), and .populate(populateFields.join(' '))
\* when the option is set (<<>> is the option left out, <<names>> set)
Populate ==
  <<"user displayName">>
    \o (IF options.populateFields # <<>>
          THEN <<Join(options.populateFields[1])>> ELSE <<>>)

FindByIdCall(id) == [op |-> "findById", id |-> id, populate |-> Populate]

get ==
  /\ Enter
  /\ \E id \in RouteIds \cup DOMAIN db, op \in {"read", "update", "delete"},
        body \in Bodies, user \in Users :
       /\ req' = [op |-> op, id |-> id, body |-> body, query |-> EmptyObject,
                  user |-> user, attached |-> <<>>]
       /\ IF ~IsValid(Str(id))
            THEN /\ res' = <<Send(400, "ID is invalid")>>
                 /\ calls' = <<>>
                 /\ lookup' = NoPromise
                 /\ pc' = "done"
            ELSE /\ res' = <<>>
                 /\ calls' = <<FindByIdCall(id)>>
                 /\ lookup' = Pending
                 /\ pc' = "findById"
  /\ nextCalls' = <<>>
  /\ rejected' = <<>>
  /\ item' = <<>>
  /\ saving' = NoPromise
  /\ findSt' = NoPromise
  /\ countSt' = NoPromise
  /\ UNCHANGED <<options, db, arg, ret>>

\* .then(data => ...) with a document: attach it, then next()
Found(data) ==
  /\ req' = [req EXCEPT !.attached = <<data>>]
  /\ nextCalls' = Append(nextCalls, NextCall("", req'))
  /\ pc' = "routed"
  /\ res' = res

NotFoundMutant ==
  /\ res' = Append(res, Send(404, "No item with that identifier has been found"))
  /\ nextCalls' = Append(nextCalls, NextCall("", req))
  /\ pc' = "done"
  /\ req' = req
\* .then(data => ...) with null: 404 and nothing else
NotFound ==
  /\ res' = Append(res, Send(404, "No item with that identifier has been found"))
  /\ pc' = "done"
  /\ UNCHANGED <<req, nextCalls>>

\* the lookup resolves: with the stored document, or with null
getThen ==
  /\ pc = "findById"
  /\ IF req.id \in DOMAIN db
       THEN lookup' = Resolved(<<db[req.id]>>) /\ Found(db[req.id])
       ELSE lookup' = Resolved(<<>>) /\ NotFound
  /\ UNCHANGED <<options, db, calls, rejected, item, saving, findSt, countSt,
                 nreq, arg, ret>>

ForwardMutant(err) ==
  /\ res' = Append(res, Send(400, err))
  /\ pc' = "done"
  /\ UNCHANGED <<req, nextCalls>>
\* .catch(err => next(err))
Forward(err) ==
  /\ nextCalls' = Append(nextCalls, NextCall(err, req))
  /\ pc' = "done"
  /\ UNCHANGED <<req, res>>

\* the lookup rejects
getCatch ==
  /\ pc = "findById"
  /\ \E err \in StorageErrors : lookup' = Rejected(err) /\ Forward(err)
  /\ UNCHANGED <<options, db, calls, rejected, item, saving, findSt, countSt,
                 nreq, arg, ret>>

(***************************************************************************)
(* read, create, update, delete and the save/delete dispatcher             *)
(***************************************************************************)
SAVE == "save"
DELETE == "delete"

PickMutant(fieldNames, body) == body
\* itemData after fieldNames.forEach(field => itemData[field] = req.body[field])
Pick(fieldNames, body) ==
  [f \in {fieldNames[i] : i \in 1..Len(fieldNames)} |-> Get(body, f)]

\* the default hooks hand back what they are given
preCreateHandler(request, data) == data
preUpdateHandler(request, data) == data
preDeleteHandler(request, data) == data

\* new this.model(data): a path given as undefined is not set
NewModel(data) == [k \in {f \in DOMAIN data : data[f] # Undefined} |-> data[k]]

\* Object.assign(target, source): every own key of source is written
Assign(target, source) ==
  [k \in DOMAIN target \cup DOMAIN source |->
     IF k \in DOMAIN source THEN source[k] ELSE target[k]]

\* this[operation](operationType, item, res), up to the await
operation(operationType, id, doc) ==
  /\ item' = <<[id |-> id, doc |-> doc]>>
  /\ calls' = Append(calls, [op |-> operationType, id |-> id, doc |-> doc])
  /\ saving' = Pending
  /\ pc' = "operation"

read ==
  /\ pc = "routed"
  /\ req.op = "read"
  /\ res' = Append(res, Json(req.attached))
  /\ pc' = "done"
  /\ UNCHANGED <<options, db, req, nextCalls, calls, rejected, item, lookup,
                 saving, findSt, countSt, nreq, arg, ret>>

create ==
  /\ Enter
  /\ \E body \in Bodies, user \in Users :
       LET request == [op |-> "create", id |-> "", body |-> body,
                       query |-> EmptyObject, user |-> user, attached |-> <<>>]
           itemData == Pick(options.fieldNames, body)
           updatedItemData == preCreateHandler(request, itemData)
           created == Put(NewModel(updatedItemData), "user", user)
       IN  /\ req' = request
           /\ item' = <<[id |-> NewId(nreq), doc |-> created]>>
           /\ calls' = <<[op |-> SAVE, id |-> NewId(nreq), doc |-> created]>>
           /\ saving' = Pending
           /\ pc' = "operation"
  /\ res' = <<>>
  /\ nextCalls' = <<>>
  /\ rejected' = <<>>
  /\ lookup' = NoPromise
  /\ findSt' = NoPromise
  /\ countSt' = NoPromise
  /\ UNCHANGED <<options, db, arg, ret>>

update ==
  /\ pc = "routed"
  /\ req.op = "update"
  /\ LET itemData == Pick(options.fieldNames, req.body)
         updatedItemData == preUpdateHandler(req, itemData)
         assigned == Assign(req.attached[1], updatedItemData)
     IN  /\ req' = [req EXCEPT !.attached = <<assigned>>]
         /\ operation(SAVE, req.id, assigned)
  /\ UNCHANGED <<options, db, res, nextCalls, rejected, lookup, findSt,
                 countSt, nreq, arg, ret>>

delete ==
  /\ pc = "routed"
  /\ req.op = "delete"
  /\ operation(DELETE, req.id, preDeleteHandler(req, req.attached[1]))
  /\ UNCHANGED <<options, db, req, res, nextCalls, rejected, lookup, findSt,
                 countSt, nreq, arg, ret>>

\* the collection after item.save() or item.delete() has succeeded
Stored(operationType, it) ==
  IF operationType = SAVE
    THEN [k \in DOMAIN db \cup {it.id} |-> IF k = it.id THEN it.doc ELSE db[k]]
    ELSE [k \in DOMAIN db \ {it.id} |-> db[k]]

\* the awaited save or delete resolves: res.json(saveResponse)
operationThen ==
  /\ pc = "operation"
  /\ db' = Stored(calls[Len(calls)].op, item[1])
  /\ saving' = Resolved(item[1].doc)
  /\ res' = Append(res, Json(saving'.value))
  /\ pc' = "done"
  /\ UNCHANGED <<options, req, nextCalls, calls, rejected, item, lookup,
                 findSt, countSt, nreq, arg, ret>>

FailedMutant(e) == rejected' = <<e>> /\ res' = res
\* catch (e): res.status(400).send({ message: e.message })
Failed(e) == res' = Append(res, Send(400, e)) /\ rejected' = rejected

\* the awaited save or delete rejects
operationCatch ==
  /\ pc = "operation"
  /\ \E e \in StorageErrors : saving' = Rejected(e) /\ Failed(e)
  /\ pc' = "done"
  /\ UNCHANGED <<options, db, req, nextCalls, calls, item, lookup,
                 findSt, countSt, nreq, arg, ret>>

Init ==
  /\ AtRest
  /\ options \in
       [fieldNames : DistinctSeqsUpTo(Fields, MaxFieldNames),
        populateFields : {<<>>, <<(<<"author", "tags">>)>>},
        fieldNamesSearch : {<<>>},
        fieldNamesSearchFilter : {<<>>}]
  /\ db = (StoredId :> StoredDocument)
  /\ arg = <<>>
  /\ ret = <<>>

Next ==
  \/ get
  \/ getThen
  \/ getCatch
  \/ read
  \/ create
  \/ update
  \/ delete
  \/ operationThen
  \/ operationCatch

Spec == Init /\ [][Next]_vars

(***************************************************************************)
(* list                                                                    *)
(***************************************************************************)
DefaultLimit == 20
DefaultPage == 1

Digits == <<"0", "1", "2", "3", "4", "5", "6", "7", "8", "9">>

DigitValue(c) == (CHOOSE i \in 1..Len(Digits) : Digits[i] = c) - 1

RECURSIVE ParseDigits(_, _)
ParseDigits(s, acc) ==
  IF Len(s) = 0 THEN acc
  ELSE ParseDigits(SubSeq(s, 2, Len(s)), 10 * acc + DigitValue(SubSeq(s, 1, 1)))

\* the number JavaScript reads from a number or a string of digits
Number(v) == ParseDigits(v.val, 0)

\* const { name = fallback } = req.query
Default(query, name, fallback) ==
  IF Get(query, name) = Undefined THEN fallback ELSE query[name]

MetaCharacters ==
  {".", "*", "+", "?", "^", "$", "{", "}", "(", ")", "|", "[", "]", "\\"}

RECURSIVE Escape(_)
\* q.replace(/[.*+?^${}()|[\]\\]/g, '\\$&')
Escape(s) ==
  IF Len(s) = 0 THEN ""
  ELSE (IF SubSeq(s, 1, 1) \in MetaCharacters
          THEN "\\" \o SubSeq(s, 1, 1) ELSE SubSeq(s, 1, 1))
       \o Escape(SubSeq(s, 2, Len(s)))

\* new RegExp(source, 'i')
RegExp(source) == [type |-> "regexp", val |-> "/" \o source \o "/i"]

\* fieldNamesSearch.map(field => ({ [field]: { $regex: new RegExp(escaped, 'i') } }))
SearchGroup(fieldNamesSearch, escaped) ==
  [i \in 1..Len(fieldNamesSearch) |-> Condition(fieldNamesSearch[i], RegExp(escaped))]

\* the default hook: no extra filter fragment
preListHandler(request) == EmptyObject

\* what a controller's pre-list hook may do: return a fragment (the default
\* returns the empty one), or fail
PreListOutcomes ==
  {[ok |-> TRUE, extra |-> e, err |-> ""] :
     e \in {preListHandler(NoRequest),
            "$and" :> <<Condition("state", Str("open"))>>,
            "deleted" :> Str("false")}}
  \cup {[ok |-> FALSE, extra |-> EmptyObject, err |-> "hook failed"]}

\* util.mergeDeep(target, source) on filter expressions: a group in both is
\* the concatenation, any other key in both takes the source's value
mergeDeep(target, source) ==
  [k \in DOMAIN target \cup DOMAIN source |->
     IF k \in DOMAIN target \cap DOMAIN source
       THEN (IF k \in {"$or", "$and"} THEN target[k] \o source[k] ELSE source[k])
       ELSE IF k \in DOMAIN source THEN source[k] ELSE target[k]]

FindCall(filter, limit, page) ==
  [op |-> "find", filter |-> filter, limit |-> Number(limit),
   skip |-> (Number(page) - 1) * Number(limit), sort |-> "-created",
   populate |-> Populate]

CountCall == [op |-> "countDocuments"]

ListQueries ==
  {paging @@ q @@ filter :
     paging \in {EmptyObject, ("limit" :> Str("10")) @@ ("page" :> Str("2"))},
     q \in {EmptyObject, "q" :> Str("a.b"), "q" :> [type |-> "array", val |-> "a,b"]},
     filter \in Objects({"status"}, {Str("active"), Str("5f1d7f3e9d3e2a0017a1b2c3")})}

\* the handler up to Promise.all, when nothing throws on the way
ListIssue(query, extraQuery) ==
  LET limit == Default(query, "limit", [type |-> "number", val |-> ToString(DefaultLimit)])
      page == Default(query, "page", [type |-> "number", val |-> ToString(DefaultPage)])
      q == Default(query, "q", Str(""))
      or == SearchGroup(options.fieldNamesSearch, Escape(q.val))
      and == prepareFilter(query, options.fieldNamesSearchFilter)
      merged == mergeDeep(("$or" :> or) @@ ("$and" :> and), extraQuery)
  IN  /\ calls' = <<FindCall(normalizeQuery(merged), limit, page), CountCall>>
      /\ findSt' = Pending
      /\ countSt' = Pending
      /\ pc' = "all"
      /\ rejected' = <<>>

\* the handler's promise rejects before anything is issued
ListThrow(message) ==
  /\ rejected' = <<message>>
  /\ calls' = <<>>
  /\ pc' = "done"
  /\ findSt' = NoPromise
  /\ countSt' = NoPromise

list ==
  /\ Enter
  /\ \E query \in ListQueries, user \in Users, hook \in PreListOutcomes :
       /\ req' = [op |-> "list", id |-> "", body |-> EmptyObject,
                  query |-> query, user |-> user, attached |-> <<>>]
       /\ IF Default(query, "q", Str("")).type # "string"
            THEN ListThrow("q.replace is not a function")
            ELSE IF ~hook.ok
              THEN ListThrow(hook.err)
              ELSE ListIssue(query, hook.extra)
  /\ res' = <<>>
  /\ nextCalls' = <<>>
  /\ item' = <<>>
  /\ lookup' = NoPromise
  /\ saving' = NoPromise
  /\ UNCHANGED <<options, db, arg, ret>>

AllResolvedMutant(items, count) ==
  Append(res, Json([items |-> items.value, count |-> count.value]))
\* Promise.all([items, count]) after one of the two has resolved:
\* .then(([items, count]) => res.json({ items, count })) once both have
AllResolved(items, count) ==
  IF items.st = "resolved" /\ count.st = "resolved"
    THEN Append(res, Json([items |-> items.value[1], count |-> count.value[1]]))
    ELSE res

\* Promise.all rejects with the first rejection:
\* .catch(err => res.status(400).send({ message: err.message }))
AllRejected(err, other) ==
  IF other.st = "rejected" THEN res ELSE Append(res, Send(400, err))

\* the request is over when both promises have settled
Settled(a, b) ==
  IF a.st \in {"resolved", "rejected"} /\ b.st \in {"resolved", "rejected"}
    THEN "done" ELSE "all"

\* the find resolves with documents of the collection
findThen ==
  /\ pc = "all" /\ findSt.st = "pending"
  /\ \E found \in SUBSET DOMAIN db :
       /\ findSt' = Resolved(found)
       /\ res' = AllResolved(findSt', countSt)
       /\ pc' = Settled(findSt', countSt)
  /\ UNCHANGED <<options, db, req, nextCalls, calls, rejected, item, lookup,
                 saving, countSt, nreq, arg, ret>>

findCatch ==
  /\ pc = "all" /\ findSt.st = "pending"
  /\ findSt' = Rejected("find failed")
  /\ res' = AllRejected("find failed", countSt)
  /\ pc' = Settled(findSt', countSt)
  /\ UNCHANGED <<options, db, req, nextCalls, calls, rejected, item, lookup,
                 saving, countSt, nreq, arg, ret>>

\* countDocuments() resolves with the size of the whole collection
countThen ==
  /\ pc = "all" /\ countSt.st = "pending"
  /\ countSt' = Resolved(Cardinality(DOMAIN db))
  /\ res' = AllResolved(findSt, countSt')
  /\ pc' = Settled(findSt, countSt')
  /\ UNCHANGED <<options, db, req, nextCalls, calls, rejected, item, lookup,
                 saving, findSt, nreq, arg, ret>>

countCatch ==
  /\ pc = "all" /\ countSt.st = "pending"
  /\ countSt' = Rejected("count failed")
  /\ res' = AllRejected("count failed", findSt)
  /\ pc' = Settled(findSt, countSt')
  /\ UNCHANGED <<options, db, req, nextCalls, calls, rejected, item, lookup,
                 saving, findSt, nreq, arg, ret>>

InitList ==
  /\ AtRest
  /\ options \in
       [fieldNames : {<<>>},
        populateFields : {<<>>, <<(<<"author", "tags">>)>>},
        fieldNamesSearch : {<<>>, <<"title">>},
        fieldNamesSearchFilter : DistinctSeqsUpTo({"status", "owner"}, MaxFilterNames)]
  /\ db = (StoredId :> StoredDocument)
  /\ arg = <<>>
  /\ ret = <<>>

NextList ==
  \/ list
  \/ findThen
  \/ findCatch
  \/ countThen
  \/ countCatch

SpecList == InitList /\ [][NextList]_vars

(***************************************************************************)
(* normalizeQuery on its own: every filter expression, one call            *)
(***************************************************************************)
SampleConditions ==
  {Condition("status", Str("active")), Condition("owner", Str("alice"))}

OtherKeys == {"deleted", "owner"}

\* <<>> for an absent group, <<g>> for the group g
Groups == {<<>>} \cup {<<g>> : g \in SeqsUpTo(SampleConditions, MaxGroup)}

FilterExpression(or, and, rest) ==
  (IF or # <<>> THEN "$or" :> or[1] ELSE EmptyObject)
    @@ (IF and # <<>> THEN "$and" :> and[1] ELSE EmptyObject)
    @@ rest

FilterExpressions ==
  {FilterExpression(or, and, rest) :
     or \in Groups, and \in Groups, rest \in Objects(OtherKeys, {Str("x"), Str("y")})}

InitNormalize ==
  /\ AtRest
  /\ options = DefaultOptions
  /\ db = [i \in {} |-> <<>>]
  /\ arg \in FilterExpressions
  /\ ret = <<>>

callNormalizeQuery ==
  /\ ret = <<>>
  /\ ret' = <<normalizeQuery(arg)>>
  /\ UNCHANGED <<arg, controllerVars>>

NextNormalize == callNormalizeQuery

SpecNormalize == InitNormalize /\ [][NextNormalize]_vars

(***************************************************************************)
(* prepareFilter on its own: every query mapping and eligible-field list   *)
(***************************************************************************)
EligibleNames == {"status", "owner", "tag"}
QueryKeys == {"status", "owner", "page"}
QueryValues ==
  {Undefined, Str("active"), Str("abcdefghijkl"),
   Str("5f1d7f3e9d3e2a0017a1b2c3")}

InitFilter ==
  /\ AtRest
  /\ options = DefaultOptions
  /\ db = [i \in {} |-> <<>>]
  /\ arg \in [query : Objects(QueryKeys, QueryValues),
              filterNames : SeqsUpTo(EligibleNames, MaxFilterNames)]
  /\ ret = <<>>

callPrepareFilter ==
  /\ ret = <<>>
  /\ ret' = <<prepareFilter(arg.query, arg.filterNames)>>
  /\ UNCHANGED <<arg, controllerVars>>

NextFilter == callPrepareFilter

SpecFilter == InitFilter /\ [][NextFilter]_vars

(***************************************************************************)
(* Reading the responses and the router's calls                            *)
(***************************************************************************)
GateOps == {"read", "update", "delete"}

IsSend(r, code, message) == r.status = code /\ r.message = message
IsJson(r, payload) == r.status = 200 /\ r.payload = payload

Listed == {options.fieldNames[i] : i \in 1..Len(options.fieldNames)}

\* the save and delete calls among cs
StorageOps(cs) == SelectSeq(cs, LAMBDA c : c.op \in {SAVE, DELETE})

\* the lookup of this request resolved with a document / with null
LookupFound == lookup.st = "resolved" /\ lookup.value[1] # <<>>
LookupNull == lookup.st = "resolved" /\ lookup.value[1] = <<>>

(***************************************************************************)
(* C1  get with an id that is not a syntactically valid ObjectId sends     *)
(* exactly one response, 400 'ID is invalid', issues no findById, never    *)
(* calls next and attaches no document.                                    *)
(***************************************************************************)
NotAnId(id) == ~(Len(id) = 12 \/ (Len(id) = 24 /\ IsHex(id)))

C1_InvalidId ==
  (req.op \in GateOps /\ NotAnId(req.id)) =>
    /\ Len(res) = 1 /\ IsSend(res[1], 400, "ID is invalid")
    /\ \A i \in 1..Len(calls) : calls[i].op # "findById"
    /\ nextCalls = <<>>
    /\ req.attached = <<>>
    /\ pc = "done"

C1_Witness ==
  /\ req.op = "update" /\ req.id = "not-an-id"
  /\ pc = "done"
  /\ Len(res) = 1 /\ res[1].status = 400
  /\ calls = <<>>

(***************************************************************************)
(* C2  get with a valid id whose lookup resolves to no document sends      *)
(* exactly one response, 404 'No item with that identifier has been        *)
(* found', calls next never and attaches nothing; a document is attached   *)
(* only when the lookup found one, and next() is called only then, once,   *)
(* with the document already attached.                                     *)
(***************************************************************************)
C2_NotFound ==
  req.op \in GateOps =>
    /\ LookupNull =>
         /\ Len(res) = 1
         /\ IsSend(res[1], 404, "No item with that identifier has been found")
         /\ nextCalls = <<>>
         /\ req.attached = <<>>
         /\ pc = "done"
    /\ req.attached # <<>> => LookupFound
    /\ \A i \in 1..Len(nextCalls) :
         nextCalls[i].err = "" =>
           LookupFound /\ nextCalls[i].attached = lookup.value[1]
    /\ LookupFound => Len(nextCalls) = 1 /\ nextCalls[1].err = ""

C2_Witness ==
  /\ req.op = "delete"
  /\ LookupNull
  /\ Len(res) = 1 /\ res[1].status = 404
  /\ Len(calls) = 1 /\ calls[1].op = "findById"

(***************************************************************************)
(* C3  when the lookup issued by get fails, get calls next(err) exactly    *)
(* once, sends no response and attaches no document; a failing save or     *)
(* delete in the dispatcher is answered with 400 and the failure's message *)
(* instead, and is not handed to next.                                     *)
(***************************************************************************)
C3_LookupFailure ==
  /\ (req.op \in GateOps /\ lookup.st = "rejected") =>
       /\ Len(nextCalls) = 1
       /\ nextCalls[1].err = lookup.err /\ nextCalls[1].attached = <<>>
       /\ res = <<>>
       /\ req.attached = <<>>
       /\ pc = "done"
  /\ saving.st = "rejected" =>
       /\ Len(res) = 1 /\ IsSend(res[1], 400, saving.err)
       /\ \A i \in 1..Len(nextCalls) : nextCalls[i].err = ""

C3_Witness ==
  /\ req.op = "read"
  /\ lookup.st = "rejected"
  /\ Len(nextCalls) = 1 /\ nextCalls[1].err = "boom"
  /\ res = <<>>

(***************************************************************************)
(* C4  as claimed: on create and update, the value of a body key that is   *)
(* not in fieldNames never reaches the document, and every key of          *)
(* fieldNames that the body carries ends with the body's value.            *)
(***************************************************************************)
C4_Original ==
  /\ (req.op = "create" /\ item # <<>>) =>
       LET doc == item[1].doc IN
       /\ \A k \in DOMAIN req.body \ Listed :
            k \notin DOMAIN doc \/ doc[k] # req.body[k]
       /\ \A k \in DOMAIN req.body \cap Listed : Get(doc, k) = req.body[k]
  /\ (req.op = "update" /\ item # <<>>) =>
       LET doc == item[1].doc
           before == lookup.value[1][1]
       IN  /\ \A k \in DOMAIN req.body \ Listed : Get(doc, k) = Get(before, k)
           /\ \A k \in DOMAIN req.body \cap Listed : Get(doc, k) = req.body[k]

(***************************************************************************)
(* C4  as amended: the same, except that the user key of a created         *)
(* document is always the requesting actor (req.user), whether or not      *)
(* fieldNames lists user and whatever the body carries under it.           *)
(***************************************************************************)
C4_Whitelist ==
  /\ (req.op = "create" /\ item # <<>>) =>
       LET doc == item[1].doc IN
       /\ \A k \in DOMAIN req.body \ Listed :
            k \notin DOMAIN doc \/ doc[k] # req.body[k]
       /\ \A k \in (DOMAIN req.body \cap Listed) \ {"user"} :
            Get(doc, k) = req.body[k]
       /\ Get(doc, "user") = req.user
  /\ (req.op = "update" /\ item # <<>>) =>
       LET doc == item[1].doc
           before == lookup.value[1][1]
       IN  /\ \A k \in DOMAIN req.body \ Listed : Get(doc, k) = Get(before, k)
           /\ \A k \in DOMAIN req.body \cap Listed : Get(doc, k) = req.body[k]

\* a create whose whitelist names user and title and whose body carries
\* user, title and secret
C4_Witness ==
  /\ req.op = "create" /\ item # <<>>
  /\ options.fieldNames = <<"user", "title">>
  /\ DOMAIN req.body = {"user", "title", "secret"}
  /\ item[1].doc = [title |-> Str("X"), user |-> req.user]

(***************************************************************************)
(* C5  a create, update or delete that has reached the dispatcher has      *)
(* issued exactly one storage operation (save for create and update,       *)
(* delete for delete), and once that has settled exactly one response is   *)
(* sent: the result with status 200 if it resolved, 400 with the failure's *)
(* message if it rejected; the handler's promise is never rejected.        *)
(***************************************************************************)
C5_Dispatcher ==
  (req.op \in {"create", "update", "delete"} /\ item # <<>>) =>
    /\ Len(StorageOps(calls)) = 1
    /\ StorageOps(calls)[1].op = (IF req.op = "delete" THEN DELETE ELSE SAVE)
    /\ rejected = <<>>
    /\ saving.st \in {"pending", "resolved", "rejected"}
    /\ saving.st = "pending" => res = <<>> /\ pc = "operation"
    /\ saving.st = "resolved" =>
         Len(res) = 1 /\ IsJson(res[1], saving.value) /\ pc = "done"
    /\ saving.st = "rejected" =>
         Len(res) = 1 /\ IsSend(res[1], 400, saving.err) /\ pc = "done"

C5_Witness ==
  /\ req.op = "delete" /\ item # <<>>
  /\ saving.st = "rejected"
  /\ Len(res) = 1 /\ res[1].status = 400 /\ res[1].message = "boom"

(***************************************************************************)
(* C6  as claimed: every list that has ended has sent exactly one          *)
(* response and its promise is not rejected.                               *)
(***************************************************************************)
C6_ListAlwaysResponds ==
  (req.op = "list" /\ pc = "done") => (Len(res) = 1 /\ rejected = <<>>)

(***************************************************************************)
(* C7  as claimed: on update, a field the request body does not carry      *)
(* keeps the value the resolved document had, and a whitelisted field the  *)
(* body carries takes the body's value.                                    *)
(***************************************************************************)
C7_UpdatePreserves ==
  (req.op = "update" /\ item # <<>>) =>
    LET doc == item[1].doc
        before == lookup.value[1][1]
    IN  \A k \in DOMAIN doc \cup DOMAIN before :
          /\ k \notin DOMAIN req.body => Get(doc, k) = Get(before, k)
          /\ k \in DOMAIN req.body \cap Listed => Get(doc, k) = req.body[k]

(***************************************************************************)
(* C8  list issues the find and the count before either settles; whatever  *)
(* the order in which they settle, at most one response is ever sent:      *)
(* {items, count} exactly when both resolved, otherwise one 400 with the   *)
(* message of the failure that came first, sent when it came; a response,  *)
(* once sent, is neither followed nor replaced by another.                 *)
(***************************************************************************)
C8_State ==
  (req.op = "list" /\ findSt.st # "none") =>
    /\ Len(calls) = 2 /\ calls[1].op = "find" /\ calls[2].op = "countDocuments"
    /\ countSt.st # "none"
    /\ rejected = <<>>
    /\ Len(res) <= 1
    /\ (findSt.st = "resolved" /\ countSt.st = "resolved") =>
         /\ Len(res) = 1
         /\ IsJson(res[1], [items |-> findSt.value[1], count |-> countSt.value[1]])
    /\ (findSt.st = "rejected" \/ countSt.st = "rejected") =>
         /\ Len(res) = 1
         /\ res[1].status = 400
         /\ res[1].message \in
              {p.err : p \in {q \in {findSt, countSt} : q.st = "rejected"}}
    /\ ("pending" \in {findSt.st, countSt.st}
          /\ "rejected" \notin {findSt.st, countSt.st}) => res = <<>>

C8_Step ==
  nreq' = nreq =>
    /\ res # <<>> => res' = res
    /\ (findSt.st = "pending" /\ findSt'.st = "rejected" /\ countSt.st # "rejected")
         => (Len(res') = 1 /\ IsSend(res'[1], 400, findSt'.err))
    /\ (countSt.st = "pending" /\ countSt'.st = "rejected" /\ findSt.st # "rejected")
         => (Len(res') = 1 /\ IsSend(res'[1], 400, countSt'.err))

C8_ListJoin == []C8_State /\ [][C8_Step]_vars

\* the count failed first, then the find failed: one 400, the count's
C8_Witness ==
  /\ req.op = "list" /\ pc = "done"
  /\ findSt.st = "rejected" /\ countSt.st = "rejected"
  /\ Len(res) = 1 /\ res[1].status = 400 /\ res[1].message = "count failed"

(***************************************************************************)
(* C9  normalizeQuery keeps $or (and $and) exactly when the input's group  *)
(* is a non-empty sequence, and then with the input's value; every other   *)
(* top-level key of the input is in the result with the same value, the    *)
(* result has no further key, and the input is left as it was.             *)
(***************************************************************************)
NormalizeResult(q, r) ==
  /\ \A g \in {"$or", "$and"} :
       /\ g \in DOMAIN r <=> (g \in DOMAIN q /\ Len(q[g]) > 0)
       /\ g \in DOMAIN r => r[g] = q[g]
  /\ \A k \in DOMAIN q \ {"$or", "$and"} : k \in DOMAIN r /\ r[k] = q[k]
  /\ DOMAIN r \subseteq DOMAIN q

C9_NormalizeQuery ==
  [][(ret = <<>> /\ ret' # <<>>) => (arg' = arg /\ NormalizeResult(arg, ret'[1]))]_vars

\* an empty $or, an absent $and and another key: the call has returned
C9_Witness ==
  /\ ret # <<>>
  /\ "$or" \in DOMAIN arg /\ arg["$or"] = <<>>
  /\ "$and" \notin DOMAIN arg
  /\ "deleted" \in DOMAIN arg
  /\ DOMAIN ret[1] = DOMAIN arg \ {"$or"}

(***************************************************************************)
(* C10  prepareFilter returns one condition {field: value} per entry of    *)
(* the eligible-field list whose value in the mapping is not undefined, in *)
(* the list's order, and nothing else; the value is the native id when the *)
(* raw value is a valid id and the raw value otherwise.                    *)
(***************************************************************************)
Defined(q, names) == SelectSeq(names, LAMBDA n : n \in DOMAIN q /\ q[n].type # "undefined")

FilterResult(q, names, out) ==
  /\ Len(out) = Len(Defined(q, names))
  /\ \A i \in 1..Len(out) :
       LET raw == q[out[i].field] IN
       /\ out[i].field = Defined(q, names)[i]
       /\ IsValid(raw) => out[i].value = [type |-> "ObjectId", val |-> raw.val]
       /\ ~IsValid(raw) => out[i].value = raw

C10_PrepareFilter ==
  [][(ret = <<>> /\ ret' # <<>>)
       => (arg' = arg /\ FilterResult(arg.query, arg.filterNames, ret'[1]))]_vars

\* owner before status in the list, both in the mapping, status a valid id,
\* and a key of the mapping that is not eligible
C10_Witness ==
  /\ ret # <<>>
  /\ arg.filterNames = <<"owner", "status">>
  /\ DOMAIN arg.query = {"status", "owner", "page"}
  /\ arg.query["owner"] = Str("active")
  /\ arg.query["status"] = Str("5f1d7f3e9d3e2a0017a1b2c3")
  /\ arg.query["page"] = Str("active")
  /\ Len(ret[1]) = 2

====
